---- MODULE Spec2Model ----
(***************************************************************************)
(* Model of stepmotor.py: class Stepper, a four-coil half-step driver with *)
(* a trapezoidal speed ramp (Stepper.move) on top of wiringpi pin I/O.     *)
(*                                                                         *)
(* Representation choices                                                  *)
(*  - A Python argument is a record [k, v]: k = "int" (value v), "none"    *)
(*    (None) or "str" (a non-numeric string such as "abc").                *)
(*  - self.direction = None is written 0.                                  *)
(*  - acceleration_steps can be a float x.0 or x.5 (step_num / 2, true     *)
(*    division); it is stored in HALF steps, i.e. twice its Python value.  *)
(*  - t = 1 / self.actual_speed is stored as its denominator.              *)
(*  - The locals of a running move are indexed by the calling thread.      *)
(***************************************************************************)
EXTENDS Integers, Sequences, FiniteSets, TLC

\* ---------------------------------------------------------------- bounds
MaxCalls == 3          \* calls of move per run of Spec
MaxStep == 2           \* small step counts 0..MaxStep
MaxLongCalls == 1      \* calls of move per run of SpecLong
MaxConcStep == 3       \* step counts 0..MaxConcStep of SpecConc

\* ------------------------------------------------------ program constants
acceleration_factor == 1
MIN_SPEED == 10
MAX_SPEED == 500
MaxPin == 16

Threads == {"main", "other"}
Pins == 0..MaxPin

half == << <<1, 0, 0, 1>>, <<1, 0, 0, 0>>, <<1, 1, 0, 0>>, <<0, 1, 0, 0>>,
           <<0, 1, 1, 0>>, <<0, 0, 1, 0>>, <<0, 0, 1, 1>>, <<0, 0, 0, 1>> >>

\* ------------------------------------------------------ argument values
IntArg(n) == [k |-> "int", v |-> n]
NoneArg == [k |-> "none", v |-> 0]
StrArg == [k |-> "str", v |-> 0]

\* step counts around the point where a MIN_SPEED ramp just fits
NearMin == (2 * MIN_SPEED - 1)..(2 * MIN_SPEED + 1)
\* step counts around the point where a MAX_SPEED ramp just fits
NearMax == (2 * MAX_SPEED - 1)..(2 * MAX_SPEED + 1)

StepArgs == {NoneArg, StrArg} \cup {IntArg(n) : n \in {-5} \cup (0..MaxStep) \cup NearMin}
SpeedArgs == {NoneArg, StrArg} \cup {IntArg(n) : n \in {-3, 0, 3, 100}}
LongStepArgs == {IntArg(n) : n \in NearMin \cup NearMax}
LongSpeedArgs == {IntArg(n) : n \in {-600, 3, 600}}

\* the main thread may also ask for the shortest move that cruises
ConcStepArgs(th) ==
    {IntArg(n) : n \in (0..MaxConcStep) \cup
                       (IF th = "main" THEN {2 * MIN_SPEED + 1} ELSE {})}
ConcSpeedArgs == {IntArg(n) : n \in {-3, 3}}

DefaultPins == <<IntArg(7), IntArg(0), IntArg(2), IntArg(3)>>
MainPinArgs == {DefaultPins,
                <<IntArg(7), IntArg(7), IntArg(2), IntArg(3)>>,
                <<IntArg(7), IntArg(0), IntArg(2), IntArg(17)>>}
PinArg == {StrArg} \cup {IntArg(n) : n \in {-1, 0, 1, 2, 16, 17}}
AllPinArgs == PinArg \X PinArg \X PinArg \X PinArg

\* ------------------------------------------------------------- state
VARIABLES
    constructed,   \* "no" | "ok" | "ConfigurationError"
    ctor,          \* history: arguments and error message of the constructor call
    inp,           \* self.inp
    mode,          \* hardware: number of pinMode(pin, 1) calls per pin
    written,       \* hardware: pins that received a digitalWrite
    level,         \* hardware: output level per pin
    last_index,    \* hardware history: table index last written by run_one_step (8 = none)
    num_step,      \* self.num_step
    direction,     \* self.direction (0 = None)
    actual_speed,  \* self.actual_speed
    pc,            \* per thread: position inside move
    step_num,      \* per thread: local step_num of move (after int())
    speed,         \* per thread: local speed of move
    acceleration_steps,    \* per thread: local, in half steps
    constant_speed_steps,  \* per thread: local
    count,         \* per thread: loop counter of the running loop
    t,             \* per thread: denominator of the delay t
    ret,           \* per thread: value returned by the last move
    hist,          \* per thread: history of the current / last move
    prev,          \* per thread: history of the move before it
    calls,         \* number of move calls made
    op             \* last operation performed

obj == <<constructed, ctor, inp, mode>>
hw == <<written, level, last_index>>
motor == <<num_step, direction, actual_speed>>
locals == <<step_num, speed, acceleration_steps, constant_speed_steps, count, t>>
history == <<hist, prev, calls>>
vars == <<obj, hw, motor, pc, locals, ret, history, op>>

\* speeds (peak, cruise_speed, *_speeds) are recorded for a call that runs
\* alone; overlapped is set once another call of move ran during this one
NoHist == [seq |-> 0, req_step |-> NoneArg, req_speed |-> NoneArg, start |-> 0,
           up |-> 0, cruise |-> 0, down |-> 0, peak |-> 0, cruise_speed |-> 0,
           acceleration_steps |-> 0, constant_speed_steps |-> 0,
           up_speeds |-> <<>>, cruise_speeds |-> {}, down_speeds |-> <<>>,
           last_phase |-> 0, ordered |-> TRUE, overlapped |-> FALSE]
NoPrev == [req_step |-> NoneArg, req_speed |-> NoneArg, start |-> 0, valid |-> FALSE]

Init ==
    /\ constructed = "no"
    /\ ctor = [args |-> <<>>, err |-> ""]
    /\ inp = <<>>
    /\ mode = [p \in Pins |-> 0]
    /\ written = {}
    /\ level = [p \in Pins |-> 0]
    /\ last_index = 8
    /\ num_step = 0
    /\ direction = 0
    /\ actual_speed = 0
    /\ pc = [th \in Threads |-> "idle"]
    /\ step_num = [th \in Threads |-> 0]
    /\ speed = [th \in Threads |-> 0]
    /\ acceleration_steps = [th \in Threads |-> 0]
    /\ constant_speed_steps = [th \in Threads |-> 0]
    /\ count = [th \in Threads |-> 0]
    /\ t = [th \in Threads |-> 0]
    /\ ret = [th \in Threads |-> "-"]
    /\ hist = [th \in Threads |-> NoHist]
    /\ prev = [th \in Threads |-> NoPrev]
    /\ calls = 0
    /\ op = "none"

\* ------------------------------------------------------- construction
\* mutant: the test for a pin used twice is missing
check_pins_NoDuplicateTest(i1, i2, i3, i4) ==
    LET input_pins == <<i1.v, i2.v, i3.v, i4.v>>
        bad == {i \in 1..4 : input_pins[i] \notin 0..MaxPin}
    IN  IF i1.k # "int" THEN "The first pin ID is not an integer"
        ELSE IF i2.k # "int" THEN "The second pin ID is not an integer"
        ELSE IF i3.k # "int" THEN "The third pin ID is not an integer"
        ELSE IF i4.k # "int" THEN "The fourth pin ID is not an integer"
        ELSE IF bad # {} THEN "The pin number does not exist"
        ELSE "ok"

\* check_pins: "ok", or the ConfigurationError it raises
check_pins(i1, i2, i3, i4) ==
    LET input_pins == <<i1.v, i2.v, i3.v, i4.v>>
        bad == {i \in 1..4 : input_pins[i] \notin 0..MaxPin}
    IN  IF i1.k # "int" THEN "The first pin ID is not an integer"
        ELSE IF i2.k # "int" THEN "The second pin ID is not an integer"
        ELSE IF i3.k # "int" THEN "The third pin ID is not an integer"
        ELSE IF i4.k # "int" THEN "The fourth pin ID is not an integer"
        ELSE IF bad # {} THEN "The pin number does not exist"
        ELSE IF Cardinality({input_pins[i] : i \in 1..4}) # 4
             THEN "There are two different pins with the same number"
        ELSE "ok"

\* Stepper.__init__
Construct(i1, i2, i3, i4) ==
    LET err == check_pins(i1, i2, i3, i4)
        ids == {i1.v, i2.v, i3.v, i4.v}
    IN  /\ constructed = "no"
        /\ ctor' = [args |-> <<i1, i2, i3, i4>>, err |-> err]
        /\ op' = "construct"
        /\ IF err # "ok"
           THEN /\ constructed' = "ConfigurationError"
                /\ UNCHANGED <<inp, mode, hw, motor>>
           ELSE /\ constructed' = "ok"
                /\ inp' = <<i1.v, i2.v, i3.v, i4.v>>
                /\ mode' = [p \in Pins |->
                              mode[p] + Cardinality({i \in 1..4 : <<i1.v, i2.v, i3.v, i4.v>>[i] = p})]
                /\ written' = written \cup ids
                /\ level' = [p \in Pins |-> IF p \in ids THEN 0 ELSE level[p]]
                /\ UNCHANGED last_index
                /\ num_step' = 0
                /\ direction' = 0
                /\ actual_speed' = 0
        /\ UNCHANGED <<pc, locals, ret, history>>

\* mutant: the last write goes to inp[0] again instead of inp[1]
Stop_RepeatsFirstPin ==
    /\ constructed = "ok"
    /\ \A th \in Threads : pc[th] = "idle"
    /\ level' = [p \in Pins |-> IF p \in {inp[1], inp[3], inp[4], inp[1]} THEN 0 ELSE level[p]]
    /\ written' = written \cup {inp[1], inp[3], inp[4], inp[1]}
    /\ op' = "stop"
    /\ UNCHANGED <<obj, last_index, motor, pc, locals, ret, history>>

\* Stepper.stop
Stop ==
    /\ constructed = "ok"
    /\ \A th \in Threads : pc[th] = "idle"
    /\ level' = [p \in Pins |-> IF p \in {inp[1], inp[3], inp[4], inp[2]} THEN 0 ELSE level[p]]
    /\ written' = written \cup {inp[1], inp[3], inp[4], inp[2]}
    /\ op' = "stop"
    /\ UNCHANGED <<obj, last_index, motor, pc, locals, ret, history>>

\* ------------------------------------------------------- phase sequencer
\* phase = (self.num_step % 8) * self.direction
Phase(n, d) == (n % 8) * d

\* mutant: a negative index is mirrored instead of counted from the end
Resolve_Mirrors(phase) == IF phase < 0 THEN -phase ELSE phase

\* list indexing self.half[phase]: a negative index counts from the end
Resolve(phase) == IF phase < 0 THEN phase + 8 ELSE phase

\* the four digitalWrite calls of run_one_step
run_one_step_level ==
    LET pat == half[Resolve(Phase(num_step, direction)) + 1]
    IN  [p \in Pins |-> IF \E k \in 1..4 : inp[k] = p
                        THEN pat[CHOOSE k \in 1..4 : inp[k] = p]
                        ELSE level[p]]

\* ------------------------------------------------------- motion planner
\* mutant: the test step_num < 0 is missing
ValidationFailure_NoSignTest(a_step, a_speed) ==
    IF a_step.k = "none" THEN "Invalid input. You should choose a value for *step_num*"
    ELSE IF a_speed.k = "none" THEN "Invalid input. You should choose a value for *speed*"
    ELSE IF a_step.k # "int" THEN "Invalid input. step_num has to be an integer"
    ELSE IF a_speed.k # "int" THEN "Invalid input. speed has to be an integer"
    ELSE ""

\* lines 116-132: the message move returns, or "" when the arguments pass
ValidationFailure(a_step, a_speed) ==
    IF a_step.k = "none" THEN "Invalid input. You should choose a value for *step_num*"
    ELSE IF a_speed.k = "none" THEN "Invalid input. You should choose a value for *speed*"
    ELSE IF a_step.k # "int" THEN "Invalid input. step_num has to be an integer"
    ELSE IF a_step.v < 0 THEN "Invalid input. step_num has to be positive"
    ELSE IF a_speed.k # "int" THEN "Invalid input. speed has to be an integer"
    ELSE ""

\* mutant: the branch for a negative speed is missing
Direction_AlwaysForward(s) == 1

\* lines 134-137
Direction(s) == IF s >= 0 THEN 1 ELSE -1

Abs(s) == IF s < 0 THEN -s ELSE s

\* mutant: the upper limit is not applied
ClampSpeed_NoUpperLimit(s) == IF s < MIN_SPEED THEN MIN_SPEED ELSE s

\* lines 140-144
ClampSpeed(s) ==
    LET s1 == IF s > MAX_SPEED THEN MAX_SPEED ELSE s
    IN  IF s1 < MIN_SPEED THEN MIN_SPEED ELSE s1

\* mutant: the ramp is planned one step short
AccelerationSteps_OneShort(n, s) ==
    LET a == (s \div acceleration_factor) - 1
    IN  IF 2 * a > n THEN n ELSE 2 * a

\* lines 147-151, in half steps
AccelerationSteps(n, s) ==
    LET a == s \div acceleration_factor
    IN  IF 2 * a > n THEN n ELSE 2 * a

\* line 152
ConstantSpeedSteps(n, a2) == n - a2

\* mutant: the speed the ramp left is kept, also when it is above the target
CruiseSpeed_KeepsReached(s, reached) == reached

\* lines 156-157
CruiseSpeed(s, reached) == IF s > reached THEN reached ELSE s

Max(a, b) == IF a > b THEN a ELSE b

\* history: rank of the phase a step belongs to (1 ramp up, 2 cruise, 3 ramp down)
PhaseRank(acc_or_dec) == IF acc_or_dec = 1 THEN 1 ELSE 3

\* mutant: the ramp up starts from the speed 0 the last move left
InitialSpeed_Zero == 0 * acceleration_factor

\* line 183: the speed the ramp up starts from
InitialSpeed == 1 * acceleration_factor

\* mutant: move waits until no other call of move is running
MoveCallable_Exclusive(th) == constructed = "ok" /\ \A o \in Threads : pc[o] = "idle"

\* line 110: a thread that is not inside move can call it on the constructed
\* motor; nothing in move looks at other callers
MoveCallable(th) == constructed = "ok" /\ pc[th] = "idle"

\* move, lines 116-153, up to the first loop test of _linear_acceleration
Move(th, a_step, a_speed) ==
    LET msg == ValidationFailure(a_step, a_speed)
        s == ClampSpeed(Abs(a_speed.v))
        a2 == AccelerationSteps(a_step.v, s)
    IN  /\ MoveCallable(th)
        /\ calls' = calls + 1
        /\ op' = "move"
        /\ prev' = [prev EXCEPT ![th] =
                      IF ret[th] = "None"
                      THEN [req_step |-> hist[th].req_step, req_speed |-> hist[th].req_speed,
                            start |-> hist[th].start, valid |-> TRUE]
                      ELSE NoPrev]
        /\ hist' = [o \in Threads |->
                      IF o = th
                      THEN [NoHist EXCEPT !.seq = calls + 1, !.req_step = a_step,
                                          !.req_speed = a_speed,
                                          !.start = num_step,
                                          !.acceleration_steps = IF msg = "" THEN a2 ELSE 0,
                                          !.constant_speed_steps =
                                              IF msg = "" THEN ConstantSpeedSteps(a_step.v, a2)
                                              ELSE 0,
                                          !.overlapped = \E q \in Threads : pc[q] # "idle"]
                      ELSE IF pc[o] # "idle" /\ msg = ""
                           THEN [hist[o] EXCEPT !.overlapped = TRUE]
                           ELSE hist[o]]
        /\ IF msg # ""
           THEN /\ ret' = [ret EXCEPT ![th] = msg]
                /\ UNCHANGED <<motor, pc, locals>>
           ELSE /\ ret' = [ret EXCEPT ![th] = "running"]
                /\ direction' = Direction(a_speed.v)
                /\ step_num' = [step_num EXCEPT ![th] = a_step.v]
                /\ speed' = [speed EXCEPT ![th] = s]
                /\ acceleration_steps' = [acceleration_steps EXCEPT ![th] = a2]
                /\ constant_speed_steps' = [constant_speed_steps EXCEPT ![th] =
                                              ConstantSpeedSteps(a_step.v, a2)]
                /\ actual_speed' = InitialSpeed
                /\ count' = [count EXCEPT ![th] = 1]
                /\ pc' = [pc EXCEPT ![th] = "accel"]
                /\ UNCHANGED <<num_step, t>>
        /\ UNCHANGED <<obj, hw>>

\* mutant: the fractional step count is rounded up
RampContinues_RoundsUp(th) == 2 * count[th] <= acceleration_steps[th] + 1

\* loop test of _linear_acceleration: count <= steps
RampContinues(th) == 2 * count[th] <= acceleration_steps[th]

\* one iteration of the while loop of _linear_acceleration (lines 189-201)
RampStep(th, acc_or_dec, phase_name) ==
    /\ pc[th] = phase_name
    /\ RampContinues(th)
    /\ op' = "step"
    /\ IF actual_speed = 0
       THEN /\ pc' = [pc EXCEPT ![th] = "idle"]
            /\ ret' = [ret EXCEPT ![th] = "ZeroDivisionError"]
            /\ UNCHANGED <<hw, motor, locals, history>>
       ELSE /\ t' = [t EXCEPT ![th] = actual_speed]
            /\ level' = run_one_step_level
            /\ last_index' = Resolve(Phase(num_step, direction))
            /\ written' = written \cup {inp[k] : k \in 1..4}
            /\ actual_speed' = actual_speed + 1 * acceleration_factor * acc_or_dec
            /\ num_step' = num_step + 1 * direction
            /\ count' = [count EXCEPT ![th] = count[th] + 1]
            /\ hist' = [hist EXCEPT ![th] =
                          [@ EXCEPT !.up = IF acc_or_dec = 1 THEN @ + 1 ELSE @,
                                    !.down = IF acc_or_dec = -1 THEN @ + 1 ELSE @,
                                    !.peak = IF hist[th].overlapped THEN @
                                             ELSE Max(@, actual_speed),
                                    !.up_speeds = IF acc_or_dec = 1 /\ ~hist[th].overlapped
                                                  THEN Append(@, actual_speed) ELSE @,
                                    !.down_speeds = IF acc_or_dec = -1 /\ ~hist[th].overlapped
                                                    THEN Append(@, actual_speed) ELSE @,
                                    !.ordered = @ /\ hist[th].last_phase <= PhaseRank(acc_or_dec),
                                    !.last_phase = PhaseRank(acc_or_dec)]]
            /\ UNCHANGED <<direction, step_num, speed, acceleration_steps,
                           constant_speed_steps, prev, calls, pc, ret>>
    /\ UNCHANGED obj

AccelStep(th) == RampStep(th, 1, "accel")

DecelStep(th) == RampStep(th, -1, "decel")

\* end of the ramp up, then lines 156-165: the cruise speed and its delay
AccelEnd(th) ==
    LET c == CruiseSpeed(speed[th], actual_speed)
    IN  /\ pc[th] = "accel"
        /\ ~RampContinues(th)
        /\ op' = "cruise"
        /\ speed' = [speed EXCEPT ![th] = c]
        /\ actual_speed' = c
        /\ hist' = [hist EXCEPT ![th] =
                      [@ EXCEPT !.cruise_speed = IF hist[th].overlapped THEN @ ELSE c]]
        /\ IF c = 0
           THEN /\ pc' = [pc EXCEPT ![th] = "idle"]
                /\ ret' = [ret EXCEPT ![th] = "ZeroDivisionError"]
                /\ UNCHANGED <<t, count>>
           ELSE /\ t' = [t EXCEPT ![th] = c]
                /\ count' = [count EXCEPT ![th] = 0]
                /\ pc' = [pc EXCEPT ![th] = "cruise"]
                /\ UNCHANGED ret
        /\ UNCHANGED <<obj, hw, num_step, direction, step_num, acceleration_steps,
                       constant_speed_steps, prev, calls>>

\* one iteration of the for loop of _move_with_constant_speed (lines 167-172)
CruiseStep(th) ==
    /\ pc[th] = "cruise"
    /\ count[th] < constant_speed_steps[th]
    /\ op' = "step"
    /\ level' = run_one_step_level
    /\ last_index' = Resolve(Phase(num_step, direction))
    /\ written' = written \cup {inp[k] : k \in 1..4}
    /\ num_step' = num_step + 1 * direction
    /\ count' = [count EXCEPT ![th] = count[th] + 1]
    /\ hist' = [hist EXCEPT ![th] =
                  [@ EXCEPT !.cruise = @ + 1,
                            !.peak = IF hist[th].overlapped THEN @ ELSE Max(@, t[th]),
                            !.cruise_speeds = IF hist[th].overlapped THEN @
                                              ELSE @ \cup {t[th]},
                            !.ordered = @ /\ hist[th].last_phase <= 2,
                            !.last_phase = 2]]
    /\ UNCHANGED <<obj, direction, actual_speed, step_num, speed, acceleration_steps,
                   constant_speed_steps, t, prev, calls, pc, ret>>

\* end of the cruise, entry of _linear_acceleration(acc_is_positive=False)
CruiseEnd(th) ==
    /\ pc[th] = "cruise"
    /\ ~(count[th] < constant_speed_steps[th])
    /\ op' = "decel"
    /\ count' = [count EXCEPT ![th] = 1]
    /\ pc' = [pc EXCEPT ![th] = "decel"]
    /\ UNCHANGED <<obj, hw, motor, step_num, speed, acceleration_steps,
                   constant_speed_steps, t, ret, history>>

\* end of the ramp down (lines 204-205) and return of move; the frame of
\* move and its locals end here
DecelEnd(th) ==
    /\ pc[th] = "decel"
    /\ ~RampContinues(th)
    /\ op' = "return"
    /\ actual_speed' = 0
    /\ pc' = [pc EXCEPT ![th] = "idle"]
    /\ ret' = [ret EXCEPT ![th] = "None"]
    /\ step_num' = [step_num EXCEPT ![th] = 0]
    /\ speed' = [speed EXCEPT ![th] = 0]
    /\ acceleration_steps' = [acceleration_steps EXCEPT ![th] = 0]
    /\ constant_speed_steps' = [constant_speed_steps EXCEPT ![th] = 0]
    /\ count' = [count EXCEPT ![th] = 0]
    /\ t' = [t EXCEPT ![th] = 0]
    /\ UNCHANGED <<obj, hw, num_step, direction, history>>

Steps(th) ==
    \/ AccelStep(th)
    \/ AccelEnd(th)
    \/ CruiseStep(th)
    \/ CruiseEnd(th)
    \/ DecelStep(th)
    \/ DecelEnd(th)

\* ------------------------------------------------------- specifications
\* one caller, short moves
Next ==
    \/ \E p \in MainPinArgs : Construct(p[1], p[2], p[3], p[4])
    \/ \E a \in StepArgs, b \in SpeedArgs : calls < MaxCalls /\ Move("main", a, b)
    \/ Steps("main")
    \/ Stop

Spec == Init /\ [][Next]_vars

\* one caller, moves long enough to reach MAX_SPEED
NextLong ==
    \/ Construct(DefaultPins[1], DefaultPins[2], DefaultPins[3], DefaultPins[4])
    \/ \E a \in LongStepArgs, b \in LongSpeedArgs : calls < MaxLongCalls /\ Move("main", a, b)
    \/ Steps("main")

SpecLong == Init /\ [][NextLong]_vars

\* a move that has started keeps running: time.sleep returns and nothing cancels it
FairLong == SpecLong /\ WF_vars(Steps("main"))

\* two callers of move on the same motor, one call each, their steps
\* interleaved
NextConc ==
    \/ Construct(DefaultPins[1], DefaultPins[2], DefaultPins[3], DefaultPins[4])
    \/ \E th \in Threads : \E a \in ConcStepArgs(th), b \in ConcSpeedArgs :
           hist[th].seq = 0 /\ Move(th, a, b)
    \/ \E th \in Threads : Steps(th)

SpecConc == Init /\ [][NextConc]_vars

\* construction alone, over all pin arguments
NextPins == \E p \in AllPinArgs : Construct(p[1], p[2], p[3], p[4])

SpecPins == Init /\ [][NextPins]_vars

\* ------------------------------------------------------- vocabulary of the claims
\* a request that the contract of move accepts
ReqValid(h) == h.req_step.k = "int" /\ h.req_step.v >= 0 /\ h.req_speed.k = "int"

\* direction the contract assigns to a signed speed
ReqDirection(h) == IF h.req_speed.v >= 0 THEN 1 ELSE -1

ReqMagnitude(h) == IF h.req_speed.v < 0 THEN -h.req_speed.v ELSE h.req_speed.v

\* the last move of thread th ran to its return
Completed(th) == pc[th] = "idle" /\ ret[th] = "None"

Executed(h) == h.up + h.cruise + h.down

\* table index of the pattern now on the four outputs (8 = no table entry)
Pattern == <<level[inp[1]], level[inp[2]], level[inp[3]], level[inp[4]]>>

PatternIndex ==
    IF \E i \in 0..7 : half[i + 1] = Pattern
    THEN CHOOSE i \in 0..7 : half[i + 1] = Pattern
    ELSE 8

FailureMessages ==
    {"Invalid input. You should choose a value for *step_num*",
     "Invalid input. You should choose a value for *speed*",
     "Invalid input. step_num has to be an integer",
     "Invalid input. step_num has to be positive",
     "Invalid input. speed has to be an integer"}

\* a step of thread th was executed in this transition
StepTaken(th) == Executed(hist'[th]) = Executed(hist[th]) + 1

\* move was called by thread th in this transition
MoveCalled(th) == calls' = calls + 1 /\ hist'[th].seq = calls' 

\* ------------------------------------------------------- C1
\* C1: after a completed move(stepCount, signedSpeed) the step counter has
\* changed by exactly direction * stepCount, odd stepCount and stepCount = 1
\* included.
C1_CounterChangesByStepCount ==
    \A th \in Threads :
        (Completed(th) /\ ReqValid(hist[th]))
            => num_step = hist[th].start + ReqDirection(hist[th]) * hist[th].req_step.v

\* ------------------------------------------------------- C2
\* C2: within a move with non-negative speed each step writes the table entry
\* one after (mod 8) the entry of the previous step; within a move with
\* negative speed each step writes the entry one before (mod 8) it.
C2_NegativeSpeedReversesSequence ==
    [][\A th \in Threads :
          (StepTaken(th) /\ Executed(hist[th]) >= 1)
              => PatternIndex' = (PatternIndex + ReqDirection(hist[th])) % 8]_vars

Accepted(th) == hist[th].seq > 0 /\ ret[th] \in {"running", "None"}

\* the requested magnitude clamped into [MIN_SPEED, MAX_SPEED], as the contract states it
ReqTarget(h) ==
    IF ReqMagnitude(h) > MAX_SPEED THEN MAX_SPEED
    ELSE IF ReqMagnitude(h) < MIN_SPEED THEN MIN_SPEED
    ELSE ReqMagnitude(h)

\* the ramp to the clamped target does not fit: floor(S / accelerationFactor) > stepCount / 2
Truncated(h) == 2 * (ReqTarget(h) \div acceleration_factor) > h.req_step.v

\* C4 as stated: in a completed move a requested magnitude above MAX_SPEED
\* gives cruise speed MAX_SPEED, and one in 1..MIN_SPEED-1 gives MIN_SPEED.
C4_ClampedCruiseSpeed ==
    \A th \in Threads :
        (Completed(th) /\ ReqValid(hist[th]))
            => /\ ReqMagnitude(hist[th]) > MAX_SPEED => hist[th].cruise_speed = MAX_SPEED
               /\ (0 < ReqMagnitude(hist[th]) /\ ReqMagnitude(hist[th]) < MIN_SPEED)
                      => hist[th].cruise_speed = MIN_SPEED

\* C4 amended: the same, for a completed move whose ramp is not truncated
\* (floor(S / accelerationFactor) <= stepCount / 2 for the clamped target S).
C4_ClampedCruiseSpeedUntruncated ==
    \A th \in Threads :
        (Completed(th) /\ ReqValid(hist[th]) /\ ~Truncated(hist[th]))
            => /\ ReqMagnitude(hist[th]) > MAX_SPEED => hist[th].cruise_speed = MAX_SPEED
               /\ (0 < ReqMagnitude(hist[th]) /\ ReqMagnitude(hist[th]) < MIN_SPEED)
                      => hist[th].cruise_speed = MIN_SPEED

\* a completed move long enough for the full ramp, asked to run above MAX_SPEED
C4_Witness ==
    /\ Completed("main")
    /\ ReqMagnitude(hist["main"]) > MAX_SPEED
    /\ ~Truncated(hist["main"])
    /\ hist["main"].cruise >= 1
    /\ hist["main"].cruise_speed = MAX_SPEED

\* ------------------------------------------------------- C5
\* the last two moves of th were move(N, +S) then move(N, -S), both completed
MirroredPair(th) ==
    /\ Completed(th)
    /\ ReqValid(hist[th])
    /\ prev[th].valid
    /\ prev[th].req_step = hist[th].req_step
    /\ prev[th].req_speed.v >= 0
    /\ hist[th].req_speed.v = -prev[th].req_speed.v

\* C5 as stated: for every N >= 0 and every magnitude S, move(N, +S) followed
\* by move(N, -S) leaves the step counter where it was before the first call.
C5_Symmetry ==
    \A th \in Threads : MirroredPair(th) => num_step = prev[th].start

\* C5 amended: the same for every magnitude S > 0 (for S = 0 both calls have
\* speed 0, which is non-negative, and both move forward).
C5_SymmetryNonZero ==
    \A th \in Threads :
        (MirroredPair(th) /\ prev[th].req_speed.v > 0) => num_step = prev[th].start

\* a mirrored pair of odd, cruising moves that started away from counter 0
C5_Witness ==
    /\ MirroredPair("main")
    /\ prev["main"].req_speed.v > 0
    /\ hist["main"].req_step.v = 2 * MIN_SPEED + 1
    /\ hist["main"].down >= 1
    /\ prev["main"].start # 0
    /\ num_step = prev["main"].start

\* ------------------------------------------------------- C6
\* C6: in a move with floor(S / accelerationFactor) > stepCount / 2 for the
\* clamped target S, no cruise step executes (constantSteps <= 0) and no step
\* uses an instantaneous speed as high as S.
C6_ShortMoveTruncation ==
    \A th \in Threads :
        (Accepted(th) /\ Truncated(hist[th]))
            => /\ hist[th].cruise = 0
               /\ pc[th] # "idle" => constant_speed_steps[th] <= 0
               /\ hist[th].peak < ReqTarget(hist[th])

\* ------------------------------------------------------- C7
\* C7: on a fresh motor move(20, 100) runs 10 ramp-up steps, 0 cruise steps
\* and 10 ramp-down steps, uses no speed above 10 steps/second for a delay,
\* and ends with the step counter at +20.
C7_EndToEnd ==
    (/\ Completed("main")
     /\ hist["main"].seq = 1
     /\ hist["main"].req_step = IntArg(20)
     /\ hist["main"].req_speed = IntArg(100))
        => /\ hist["main"].up = 10
           /\ hist["main"].cruise = 0
           /\ hist["main"].down = 10
           /\ hist["main"].peak = 10
           /\ num_step = 20

\* ------------------------------------------------------- C8
CtorIds == {ctor.args[i].v : i \in 1..4}

CtorAllInt == \A i \in 1..4 : ctor.args[i].k = "int"

CtorOutOfRange == \E i \in 1..4 : ctor.args[i].k = "int" /\ ctor.args[i].v \notin 0..16

CtorDuplicate ==
    \E i, j \in 1..4 : i # j /\ ctor.args[i].k = "int" /\ ctor.args[i] = ctor.args[j]

\* C8: construction with a pin identifier outside 0..16 or with two equal
\* identifiers fails with a ConfigurationError and no pinMode or digitalWrite
\* call; construction with four distinct identifiers in 0..16 succeeds, calls
\* pinMode once for each of the four pins and stores them as self.inp.
C8_PinValidation ==
    constructed # "no"
        => /\ (CtorOutOfRange \/ CtorDuplicate)
                  => /\ constructed = "ConfigurationError"
                     /\ \A p \in Pins : mode[p] = 0
                     /\ written = {}
           /\ (CtorAllInt /\ ~CtorOutOfRange /\ ~CtorDuplicate)
                  => /\ constructed = "ok"
                     /\ \A p \in Pins : mode[p] = IF p \in CtorIds THEN 1 ELSE 0
                     /\ inp = <<ctor.args[1].v, ctor.args[2].v, ctor.args[3].v, ctor.args[4].v>>

\* a construction rejected only because two in-range identifiers are equal
C8_Witness ==
    /\ constructed = "ConfigurationError"
    /\ CtorAllInt
    /\ ~CtorOutOfRange
    /\ CtorDuplicate
    /\ written = {}

\* ------------------------------------------------------- C9
\* C9: every move that passes validation returns, having executed at most
\* stepCount steps, and the instantaneous speed is 0 when it has returned.
C9_MoveTerminates ==
    /\ \A th \in Threads :
           (pc[th] # "idle") ~> (Completed(th) /\ actual_speed = 0)
    /\ [](\A th \in Threads :
              Accepted(th) => Executed(hist[th]) <= hist[th].req_step.v)
    /\ [](\A th \in Threads : Completed(th) => actual_speed = 0)

\* a returned move of odd length that ran all three phases
C9_Witness ==
    /\ Completed("main")
    /\ hist["main"].req_step.v = 2 * MIN_SPEED + 1
    /\ hist["main"].up >= 1
    /\ hist["main"].cruise >= 1
    /\ hist["main"].down >= 1
    /\ actual_speed = 0

\* ------------------------------------------------------- C10
\* C10: stop drives all four assigned outputs low, whatever the state, and
\* leaves the step counter, the direction and the instantaneous speed alone.
C10_StopDeenergizes ==
    [][op' = "stop"
          => /\ \A k \in 1..4 : level'[inp[k]] = 0
             /\ UNCHANGED <<num_step, direction, actual_speed>>]_vars

\* stop called right after a move that executed steps and left coils energized
C10_Witness ==
    /\ op = "stop"
    /\ Completed("main")
    /\ Executed(hist["main"]) >= 1
    /\ num_step # 0
    /\ \A k \in 1..4 : level[inp[k]] = 0

\* ------------------------------------------------------- C12
\* thread th has computed a delay in its running move: it executed a ramp-up
\* step, or it passed the start of the constant-speed phase
DelayComputed(th) ==
    \/ pc[th] = "accel" /\ hist[th].up >= 1
    \/ pc[th] \in {"cruise", "decel"}

\* C12: every delay 1 / speed of a ramp-up, cruise or ramp-down step, and the
\* delay computed at the start of the constant-speed phase, divides by a
\* speed of at least accelerationFactor; no division by zero is reached,
\* stepCount = 0 and truncated ramps included.
C12_DelayFromPositiveSpeed ==
    \A th \in Threads :
        /\ ret[th] # "ZeroDivisionError"
        /\ DelayComputed(th) => t[th] >= acceleration_factor
        /\ Accepted(th) =>
              /\ \A i \in 1..Len(hist[th].up_speeds) :
                     hist[th].up_speeds[i] >= acceleration_factor
              /\ \A i \in 1..Len(hist[th].down_speeds) :
                     hist[th].down_speeds[i] >= acceleration_factor
              /\ \A v \in hist[th].cruise_speeds : v >= acceleration_factor

\* the cruise delay of a move of zero steps, computed though no step follows
C12_Witness ==
    /\ pc["main"] = "cruise"
    /\ hist["main"].req_step = IntArg(0)
    /\ constant_speed_steps["main"] = 0
    /\ t["main"] = acceleration_factor

\* ------------------------------------------------------- C13
Reverse(q) == [i \in 1..Len(q) |-> q[Len(q) + 1 - i]]

\* C13: in every completed move the speeds of the ramp-down steps are the
\* speeds of the ramp-up steps in reverse order (same number of steps, same
\* values), for full and for truncated ramps.
C13_RampDownMirrorsRampUp ==
    \A th \in Threads :
        (Completed(th) /\ ReqValid(hist[th]))
            => hist[th].down_speeds = Reverse(hist[th].up_speeds)

\* ------------------------------------------------------- C14
\* C14: within one move no ramp-up step follows a cruise or ramp-down step
\* and no cruise step follows a ramp-down step; the cruise phase executes
\* zero steps exactly when constantSteps <= 0, and a ramp phase executes zero
\* steps only when accelerationSteps = 0.
C14_PhaseOrder ==
    \A th \in Threads :
        Accepted(th) =>
            /\ hist[th].ordered
            /\ Completed(th) =>
                  /\ (hist[th].cruise = 0) <=> (hist[th].constant_speed_steps <= 0)
                  /\ (hist[th].up = 0 \/ hist[th].down = 0)
                         => hist[th].acceleration_steps = 0

\* ------------------------------------------------------- C15
\* the explicit form of the phase index
ExplicitIndex(n, d) == (((n * d) % 8) + 8) % 8

\* C15: for the step counter (positive, zero or negative) and direction of
\* every executed step, the entry selected by (step mod 8) * direction with
\* negative-index wraparound is the entry ((step * direction) mod 8 + 8) mod 8,
\* and it lies in 0..7.
C15_PhaseIndexEquivalence ==
    [][\A th \in Threads :
          StepTaken(th)
              => /\ last_index' = ExplicitIndex(num_step, direction)
                 /\ last_index' \in 0..7
                 /\ Pattern' = half[ExplicitIndex(num_step, direction) + 1]]_vars

\* a backward step taken at a positive counter that is not a multiple of 8,
\* so the phase was negative and the index wrapped
C15_Witness ==
    /\ op = "step"
    /\ direction = -1
    /\ num_step + 1 > 0
    /\ (num_step + 1) % 8 # 0
    /\ last_index = ExplicitIndex(num_step + 1, -1)
    /\ Pattern = half[last_index + 1]

\* ------------------------------------------------------- C16
\* C16: in a completed move whose ramp is not truncated (accelerationFactor
\* = 1) the ramp up executes S steps at speeds 1, 2, ..., S, the cruise
\* executes stepCount - 2 * S steps, all at speed S, the ramp down executes S
\* steps at speeds S, S - 1, ..., 1, and the cruise speed is S, for the
\* clamped target S.
C16_FullTrapezoid ==
    \A th \in Threads :
        (Completed(th) /\ ReqValid(hist[th]) /\ ~Truncated(hist[th]))
            => LET S == ReqTarget(hist[th])
               IN  /\ hist[th].up_speeds = [i \in 1..S |-> i]
                   /\ hist[th].cruise = hist[th].req_step.v - 2 * S
                   /\ hist[th].cruise_speeds \subseteq {S}
                   /\ hist[th].down_speeds = [i \in 1..S |-> S + 1 - i]
                   /\ hist[th].cruise_speed = S

\* a completed move that ramped to MAX_SPEED, cruised and ramped down
C16_Witness ==
    /\ Completed("main")
    /\ ~Truncated(hist["main"])
    /\ ReqTarget(hist["main"]) = MAX_SPEED
    /\ Len(hist["main"].up_speeds) = MAX_SPEED
    /\ hist["main"].cruise_speeds = {MAX_SPEED}
    /\ Len(hist["main"].down_speeds) = MAX_SPEED

\* ------------------------------------------------------- C17
\* C17: no executed step uses an instantaneous speed above the clamped target
\* of its move, hence none above MAX_SPEED, although the speed variable is
\* incremented once past the last ramp-up step.
C17_SpeedNeverAboveTarget ==
    \A th \in Threads :
        Accepted(th) =>
            /\ hist[th].peak <= ReqTarget(hist[th])
            /\ hist[th].peak <= MAX_SPEED
            /\ \A i \in 1..Len(hist[th].up_speeds) : hist[th].up_speeds[i] <= ReqTarget(hist[th])
            /\ \A i \in 1..Len(hist[th].down_speeds) : hist[th].down_speeds[i] <= ReqTarget(hist[th])
            /\ \A v \in hist[th].cruise_speeds : v <= ReqTarget(hist[th])

\* the end of a full ramp up to MAX_SPEED: the last step ran at MAX_SPEED and
\* the speed variable stands one increment above it
C17_Witness ==
    /\ pc["main"] = "accel"
    /\ hist["main"].peak = MAX_SPEED
    /\ actual_speed = MAX_SPEED + acceleration_factor
    /\ ReqMagnitude(hist["main"]) > MAX_SPEED

\* ------------------------------------------------------- C18
\* C18: from the second energize call on, over any sequence of completed
\* moves on one motor, reversals included, the table index of each written
\* pattern is the index of the previously written pattern plus or minus 1
\* modulo 8.
C18_NoPhaseSkipped ==
    [][\A th \in Threads :
          (StepTaken(th) /\ last_index # 8)
              => \/ last_index' = (last_index + 1) % 8
                 \/ last_index' = (last_index + 7) % 8]_vars

\* ------------------------------------------------------- C11
\* what the move of thread th does when it runs alone from where it started
AloneDisplacement(h) ==
    ReqDirection(h) * (IF Truncated(h) THEN 2 * (h.req_step.v \div 2) ELSE h.req_step.v)

\* the step sequence of thread th is corrupted: a delay was computed from
\* speed 0 after the other move's deceleration forced the speed to 0, or both
\* moves returned and the counter is not the sum of their displacements
Corrupted(th, o) ==
    \/ ret[th] = "ZeroDivisionError" /\ actual_speed = 0 /\ Completed(o)
    \/ /\ Completed(th) /\ Completed(o)
       /\ hist[th].seq + hist[o].seq = 3
       /\ num_step # AloneDisplacement(hist[th]) + AloneDisplacement(hist[o])

\* C11: the core provides no mutual exclusion: while one thread is inside
\* move any other thread can enter move on the same motor, and only such
\* overlapping calls corrupt the step sequence (a delay computed from speed 0,
\* or a final counter that is not the sum of the two displacements).
C11_NoMutualExclusion ==
    \A th \in Threads : \A o \in Threads \ {th} :
        /\ (constructed = "ok" /\ pc[th] # "idle" /\ pc[o] = "idle")
               => ENABLED (\E a \in ConcStepArgs(o), b \in ConcSpeedArgs : Move(o, a, b))
        /\ Corrupted(th, o) => (hist[th].overlapped \/ hist[o].overlapped)

\* an interleaving in which the other move returned, forcing the speed to 0,
\* and the next step of the main move divided by it
C11_Witness ==
    /\ ret["main"] = "ZeroDivisionError"
    /\ hist["main"].overlapped
    /\ Completed("other")
    /\ actual_speed = 0
    /\ Executed(hist["main"]) >= 1

====
